---------------------------- MODULE Spec2Model ----------------------------
(***************************************************************************)
(* Model of center_object (src/main.py): a visual-servoing controller that *)
(* centres a detected object in the wrist camera by moving the robot base. *)
(*                                                                         *)
(* Units.  Pixel coordinates of a bounding box are integers.  A bounding-  *)
(* box centre (x1 + x2) / 2 can be a half pixel, so u, v, u_err and v_err  *)
(* are carried in HALF PIXELS (twice the source's value).  Lengths are in  *)
(* micrometres (0.04 m = 40000), gain in micrometres per pixel, angles in  *)
(* degrees (math.radians(d) is d in units of pi/180 rad).                   *)
(***************************************************************************)
EXTENDS Integers, Sequences, FiniteSets

(* ------------------------------ bounds -------------------------------- *)
\* largest max_iterations argument explored
MaxIter == 11
\* longest detection list a query returns
MaxDets == 2

(* ------------------------- program constants -------------------------- *)
CENTER_U == 320
CENTER_V == 240
MAX_STEP == 40000
\* DAMPING = 0.5, carried as tenths
DAMPING == 5
U_TOLERANCE == 80
FINE_ANGLE == 10
\* faulty variant of MAX_FINE_ROTATIONS: one step too many
MAX_FINE_ROTATIONS_seven == 6 + 1
MAX_FINE_ROTATIONS == 6
angle_30 == 30
angle_60 == 60
wiggle_step == 20000
\* the literal 10 of "consecutive_misses >= 10"
MISS_LIMIT == 10

None == [none |-> TRUE]
NotReturned == [running |-> TRUE]

(* ------------------------------ inputs -------------------------------- *)
\* class labels as sequences of character codes
banana == <<98, 97, 110, 97, 110, 97>>
Banana == <<66, 97, 110, 97, 110, 97>>
BANANA == <<66, 65, 78, 65, 78, 65>>
apple == <<97, 112, 112, 108, 101>>

Targets == {Banana}
Tolerances == {30, 100}
Gains == {1500, 400}
MaxIterations == 0 .. MaxIter

\* bounding boxes <<x1, y1, x2, y2>>:
\*   centred; u_err = 100, v_err = -50; u_err = -100, v_err = 100;
\*   u_err = 30 exactly; u_err = 29.5, v_err = 0.5; u_err = 80 exactly
BBoxes ==
  { <<300, 220, 340, 260>>, <<400, 170, 440, 210>>, <<200, 320, 240, 360>>,
    <<340, 230, 360, 250>>, <<339, 230, 360, 251>>, <<390, 230, 410, 250>> }

Detections ==
  [class_name : {banana}, bbox : BBoxes]
    \cup { [class_name |-> BANANA, bbox |-> <<400, 170, 440, 210>>],
           [class_name |-> apple, bbox |-> <<300, 220, 340, 260>>] }

RECURSIVE SeqsUpTo(_, _)
SeqsUpTo(S, n) ==
  IF n = 0 THEN {<<>>}
  ELSE LET shorter == SeqsUpTo(S, n - 1)
       IN shorter \cup { Append(s, d) : s \in shorter, d \in S }

\* what yolo.segment_camera(...).detections can be
Results == SeqsUpTo(Detections, MaxDets)

(* --------------------------- pure functions --------------------------- *)
Abs(x) == IF x < 0 THEN -x ELSE x
Min(a, b) == IF a < b THEN a ELSE b
Max(a, b) == IF a > b THEN a ELSE b

\* str.lower() on character codes
lower(s) == [k \in DOMAIN s |-> IF s[k] \in 65 .. 90 THEN s[k] + 32 ELSE s[k]]

Matches(d, tgt) == lower(d.class_name) = lower(tgt)

\* faulty variant of detect_target: the last match wins
detect_target_last(detections, tgt) ==
  LET hits == { k \in DOMAIN detections : Matches(detections[k], tgt) }
  IN IF hits = {} THEN None
     ELSE detections[CHOOSE k \in hits : \A j \in hits : k >= j]

\* first detection of the list whose label matches, else None
detect_target(detections, tgt) ==
  LET hits == { k \in DOMAIN detections : Matches(detections[k], tgt) }
  IN IF hits = {} THEN None
     ELSE detections[CHOOSE k \in hits : \A j \in hits : k <= j]

\* the selection loop of the centering loop: target_det = None, then the
\* first det of detections whose label matches, and break
RECURSIVE inline_select(_, _)
inline_select(detections, tgt) ==
  IF detections = <<>> THEN None
  ELSE IF lower(Head(detections).class_name) = lower(tgt)
    THEN Head(detections)
    ELSE inline_select(Tail(detections), tgt)

\* what detect_target, and the selection of the centering loop, can return
\* for a target, over all the lists a query can deliver
Selected == [tgt \in Targets |-> { detect_target(r, tgt) : r \in Results }]
SelectedInline ==
  [tgt \in Targets |-> { inline_select(r, tgt) : r \in Results }]

\* bbox centre and pixel error, in half pixels
u(d) == d.bbox[1] + d.bbox[3]
v(d) == d.bbox[2] + d.bbox[4]
u_err(d) == u(d) - 2 * CENTER_U
v_err(d) == v(d) - 2 * CENTER_V

\* faulty variants of Centered: "or" for "and"; a threshold one half pixel low
Centered_or(d, tol) == Abs(u_err(d)) < 2 * tol \/ Abs(v_err(d)) < 2 * tol
Centered_tight(d, tol) ==
  Abs(u_err(d)) < 2 * tol - 1 /\ Abs(v_err(d)) < 2 * tol - 1

\* abs(u_err) < tolerance and abs(v_err) < tolerance
Centered(d, tol) == Abs(u_err(d)) < 2 * tol /\ Abs(v_err(d)) < 2 * tol

\* faulty variant of Clamp: the lower bound is forgotten
Clamp_upper_only(x) == Min(MAX_STEP, x)

\* max(-MAX_STEP, min(MAX_STEP, x))
Clamp(x) == Max(-MAX_STEP, Min(MAX_STEP, x))

\* -gain * err * DAMPING, err in half pixels, DAMPING in tenths
Scaled(g, err) == (-(g * err * DAMPING)) \div 20

\* faulty variant of move_dx: driven by the horizontal error
move_dx_swapped(d, g) == Clamp(Scaled(g, u_err(d)))

\* dx = clamp(-gain * v_err * DAMPING), dy = clamp(-gain * u_err * DAMPING)
move_dx(d, g) == Clamp(Scaled(g, v_err(d)))
move_dy(d, g) == Clamp(Scaled(g, u_err(d)))

\* faulty variant of wiggle_dy: the parity of the count, as for dx
wiggle_dy_same(cm) == wiggle_step * (IF cm % 2 = 0 THEN 1 ELSE -1)

\* faulty variant of wiggle_dx: the parity test is inverted
wiggle_dx_inverted(cm) == wiggle_step * (IF cm % 2 = 0 THEN -1 ELSE 1)

\* wiggle_step * (1 if consecutive_misses % 2 == 0 else -1), and
\* wiggle_step * (1 if (consecutive_misses // 2) % 2 == 0 else -1)
wiggle_dx(cm) == wiggle_step * (IF cm % 2 = 0 THEN 1 ELSE -1)
wiggle_dy(cm) == wiggle_step * (IF (cm \div 2) % 2 = 0 THEN 1 ELSE -1)

\* abs(u_err) < U_TOLERANCE in rotational_center
RotCentered(d) == Abs(u_err(d)) < 2 * U_TOLERANCE

\* faulty variant of fine_dtheta: rotates away from the centre
fine_dtheta_inverted(d) == IF u_err(d) > 0 THEN FINE_ANGLE ELSE -FINE_ANGLE

\* rotate towards centre
fine_dtheta(d) == IF u_err(d) > 0 THEN -FINE_ANGLE ELSE FINE_ANGLE

\* faulty variant of SweepDelta: the last rotation stops short of the start
SweepDelta_short_return ==
  << angle_30, -2 * angle_30, angle_30, angle_60, -2 * angle_60, angle_30 >>

\* faulty variant of SweepDelta: the wide sweep comes first
SweepDelta_wide_first ==
  << angle_60, -2 * angle_60, angle_60, angle_30, -2 * angle_30, angle_30 >>

\* the six rotations of search_rotate, in program order
SweepDelta ==
  << angle_30, -2 * angle_30, angle_30, angle_60, -2 * angle_60, angle_60 >>
\* the rotations that are followed by detect_target()
SweepDetects == {1, 2, 4, 5}

\* faulty variant of MissLimitReached: off by one
MissLimitReached_late(cm) == cm > MISS_LIMIT

\* if consecutive_misses >= 10
MissLimitReached(cm) == cm >= MISS_LIMIT

\* faulty variant of InRange: one iteration too many
InRange_inclusive(it, n) == it <= n

\* for iteration in range(max_iterations)
InRange(it, n) == it < n

\* faulty variant of SearchFailed: the result of the search is not tested
SearchFailed_never(td) == FALSE

\* if target_det is None, after search_rotate()
SearchFailed(td) == td = None

\* faulty variant of ResetMisses: the counter is kept
ResetMisses_kept(cm) == cm

\* consecutive_misses = 0 on a successful detection
ResetMisses(cm) == 0

\* base.move_delta(dx=0, dy=0, dtheta=0)
move_delta(x, y, th, kind) == [dx |-> x, dy |-> y, dtheta |-> th, kind |-> kind]
NoCommand == [dx |-> 0, dy |-> 0, dtheta |-> 0, kind |-> "none"]

(* ------------------------------- state -------------------------------- *)
VARIABLES
  pc,                  \* position in center_object
  target, tolerance, max_iterations, gain,   \* arguments
  det,                 \* det of search_rotate / rotational_center
  target_det,          \* target_det of center_object
  i,                   \* loop index of rotational_center
  sweep,               \* index of the current rotation of search_rotate
  iteration,           \* loop index of the centering loop
  consecutive_misses,
  ret,                 \* the value returned
  cmd,                 \* the base.move_delta call of the last step, if any
  lastEvent,           \* "start", "query", "move" or "sleep"
  sweepHeading,        \* sum of the dtheta commanded by search_rotate itself
  checkpoints,         \* detect_target calls made by search_rotate
  nLoopQueries,        \* queries made by the centering loop
  missRun,             \* the most recent centering queries that all missed
  streakWiggles,       \* wiggles issued since the last centering hit
  wiggles,             \* their <<dx, dy>>, in order
  nQueries,            \* yolo.segment_camera calls made so far
  nCommands,           \* base.move_delta calls made so far
  nRotations,          \* of which with a non-zero dtheta
  nFine,               \* of which made by rotational_center
  selectable,          \* what a query of this run can select
  detections,          \* the list the selection functions are applied to
  lost,                \* detection lost in rotational_center
  outcome              \* which return statement ended the run

args == <<target, tolerance, max_iterations, gain>>
locals == <<det, target_det, i, sweep, iteration, consecutive_misses>>
ghosts == <<sweepHeading, checkpoints, nLoopQueries, missRun, streakWiggles,
            wiggles, lost>>
counters == <<nQueries, nCommands, nRotations, nFine>>
env == <<selectable, detections>>
vars == <<pc, args, env, locals, ret, cmd, lastEvent, ghosts, counters,
          outcome>>

Init ==
  /\ pc = "initial_detect"
  /\ target \in Targets
  /\ tolerance \in Tolerances
  /\ max_iterations \in MaxIterations
  /\ gain \in Gains
  /\ det = None
  /\ target_det = None
  /\ i = 0
  /\ sweep = 0
  /\ iteration = 0
  /\ consecutive_misses = 0
  /\ ret = NotReturned
  /\ cmd = NoCommand
  /\ lastEvent = "start"
  /\ sweepHeading = 0
  /\ checkpoints = 0
  /\ nLoopQueries = 0
  /\ missRun = 0
  /\ streakWiggles = 0
  /\ wiggles = <<>>
  /\ nQueries = 0
  /\ nCommands = 0
  /\ nRotations = 0
  /\ nFine = 0
  /\ selectable = [helper |-> Selected[target],
                   inline |-> SelectedInline[target]]
  /\ detections = <<>>
  /\ lost = FALSE
  /\ outcome = "running"

(* ------------------------------ helpers ------------------------------- *)
\* a step that calls base.move_delta
Issue(c) ==
  /\ cmd' = c
  /\ lastEvent' = "move"
  /\ nCommands' = nCommands + 1
  /\ nRotations' = IF c.dtheta # 0 THEN nRotations + 1 ELSE nRotations
  /\ nFine' = IF c.kind = "fine" THEN nFine + 1 ELSE nFine
  /\ UNCHANGED nQueries

\* a step that calls yolo.segment_camera
Query ==
  /\ cmd' = NoCommand
  /\ lastEvent' = "query"
  /\ nQueries' = nQueries + 1
  /\ UNCHANGED <<nCommands, nRotations, nFine>>

\* a step that calls time.sleep
Sleep ==
  /\ cmd' = NoCommand
  /\ lastEvent' = "sleep"
  /\ UNCHANGED counters

Return(success, position, why) ==
  /\ pc' = "done"
  /\ ret' = [success |-> success, position |-> position]
  /\ outcome' = why

(* ------------------------------ actions ------------------------------- *)
\* target_det = detect_target()
InitialDetect ==
  /\ pc = "initial_detect"
  /\ \E d \in selectable.helper : target_det' = d
  /\ pc' = "initial_check"
  /\ Query
  /\ UNCHANGED <<args, env, det, i, sweep, iteration, consecutive_misses, ret,
                 ghosts, outcome>>

\* if target_det is None: target_det = search_rotate()
InitialNotFound ==
  /\ pc = "initial_check"
  /\ target_det = None
  /\ pc' = "search_move"
  /\ sweep' = 1
  /\ UNCHANGED <<args, env, det, target_det, i, iteration, consecutive_misses,
                 ret, cmd, lastEvent, counters, ghosts, outcome>>

\* faulty variant of InitialFound: an initial detection that is already
\* centred is returned at once
InitialFound_shortcut ==
  /\ pc = "initial_check"
  /\ target_det # None
  /\ consecutive_misses' = 0
  /\ iteration' = 0
  /\ IF Centered(target_det, tolerance)
       THEN Return(TRUE, [u |-> u(target_det), v |-> v(target_det)],
                   "success")
       ELSE pc' = "loop" /\ UNCHANGED <<ret, outcome>>
  /\ UNCHANGED <<args, env, det, target_det, i, sweep, cmd, lastEvent,
                 counters, ghosts>>

\* the object is visible: consecutive_misses = 0 and enter the loop
InitialFound ==
  /\ pc = "initial_check"
  /\ target_det # None
  /\ pc' = "loop"
  /\ consecutive_misses' = 0
  /\ iteration' = 0
  /\ UNCHANGED <<args, env, det, target_det, i, sweep, ret, cmd, lastEvent,
                 counters, ghosts, outcome>>

\* base.move_delta(dtheta=...) of search_rotate
SearchMove ==
  /\ pc = "search_move"
  /\ Issue(move_delta(0, 0, SweepDelta[sweep], "search"))
  /\ sweepHeading' = sweepHeading + SweepDelta[sweep]
  /\ pc' = "search_sleep"
  /\ UNCHANGED <<args, env, locals, ret, checkpoints, nLoopQueries, missRun,
                 streakWiggles, wiggles, lost, outcome>>

\* time.sleep(...) of search_rotate, then the statement that follows it:
\* a detection query, the next rotation, or return None
SearchSleep ==
  /\ pc = "search_sleep"
  /\ Sleep
  /\ IF sweep \in SweepDetects
       THEN pc' = "search_detect" /\ UNCHANGED <<sweep, target_det>>
       ELSE IF sweep < Len(SweepDelta)
         THEN pc' = "search_move" /\ sweep' = sweep + 1 /\ UNCHANGED target_det
         ELSE pc' = "search_ret" /\ target_det' = None /\ sweep' = 0
  /\ UNCHANGED <<args, env, det, i, iteration, consecutive_misses, ret, ghosts,
                 outcome>>

\* det = detect_target() of search_rotate
SearchDetect ==
  /\ pc = "search_detect"
  /\ \E d \in selectable.helper : det' = d
  /\ pc' = "search_check"
  /\ Query
  /\ checkpoints' = checkpoints + 1
  /\ UNCHANGED <<args, env, target_det, i, sweep, iteration, consecutive_misses,
                 ret, sweepHeading, nLoopQueries, missRun, streakWiggles,
                 wiggles, lost, outcome>>

\* if det: return rotational_center(det)
SearchFound ==
  /\ pc = "search_check"
  /\ det # None
  /\ pc' = "rc"
  /\ i' = 0
  /\ UNCHANGED <<args, env, det, target_det, sweep, iteration,
                 consecutive_misses, ret, cmd, lastEvent, counters, ghosts,
                 outcome>>

\* not found at this checkpoint: go on with the sweep
SearchNotFound ==
  /\ pc = "search_check"
  /\ det = None
  /\ pc' = "search_move"
  /\ sweep' = sweep + 1
  /\ UNCHANGED <<args, env, det, target_det, i, iteration, consecutive_misses,
                 ret, cmd, lastEvent, counters, ghosts, outcome>>

\* rotational_center and search_rotate return d to center_object;
\* their locals are gone
ReturnFromSearch(d) ==
  /\ pc' = "search_ret"
  /\ target_det' = d
  /\ det' = None
  /\ i' = 0
  /\ sweep' = 0

\* rotational_center: abs(u_err) < U_TOLERANCE, return det
RcCentered ==
  /\ pc = "rc"
  /\ i < MAX_FINE_ROTATIONS
  /\ RotCentered(det)
  /\ ReturnFromSearch(det)
  /\ UNCHANGED <<args, env, iteration, consecutive_misses, ret, cmd, lastEvent,
                 counters, ghosts, outcome>>

\* faulty variant of RcRotate: the settling pause is skipped
RcRotate_no_sleep ==
  /\ pc = "rc"
  /\ i < MAX_FINE_ROTATIONS
  /\ ~RotCentered(det)
  /\ Issue(move_delta(0, 0, fine_dtheta(det), "fine"))
  /\ pc' = "rc_detect"
  /\ UNCHANGED <<args, env, locals, ret, ghosts, outcome>>

\* rotational_center: rotate towards the centre
RcRotate ==
  /\ pc = "rc"
  /\ i < MAX_FINE_ROTATIONS
  /\ ~RotCentered(det)
  /\ Issue(move_delta(0, 0, fine_dtheta(det), "fine"))
  /\ pc' = "rc_sleep"
  /\ UNCHANGED <<args, env, locals, ret, ghosts, outcome>>

\* rotational_center: time.sleep(0.3)
RcSleep ==
  /\ pc = "rc_sleep"
  /\ pc' = "rc_detect"
  /\ Sleep
  /\ UNCHANGED <<args, env, locals, ret, ghosts, outcome>>

\* rotational_center: det = detect_target()
RcDetect ==
  /\ pc = "rc_detect"
  /\ \E d \in selectable.helper : det' = d
  /\ pc' = "rc_check"
  /\ Query
  /\ UNCHANGED <<args, env, target_det, i, sweep, iteration, consecutive_misses,
                 ret, ghosts, outcome>>

\* rotational_center: if det is None: return None
RcLost ==
  /\ pc = "rc_check"
  /\ det = None
  /\ ReturnFromSearch(None)
  /\ lost' = TRUE
  /\ UNCHANGED <<args, env, iteration, consecutive_misses, ret, cmd, lastEvent,
                 counters, sweepHeading, checkpoints, nLoopQueries, missRun,
                 streakWiggles, wiggles, outcome>>

\* rotational_center: next fine-rotation step
RcNext ==
  /\ pc = "rc_check"
  /\ det # None
  /\ pc' = "rc"
  /\ i' = i + 1
  /\ UNCHANGED <<args, env, det, target_det, sweep, iteration,
                 consecutive_misses, ret, cmd, lastEvent, counters, ghosts,
                 outcome>>

\* faulty variant of RcMaxSteps: running out of steps is a failure
RcMaxSteps_fails ==
  /\ pc = "rc"
  /\ i >= MAX_FINE_ROTATIONS
  /\ ReturnFromSearch(None)
  /\ UNCHANGED <<args, env, iteration, consecutive_misses, ret, cmd,
                 lastEvent, counters, ghosts, outcome>>

\* rotational_center: the loop ran out, return det
RcMaxSteps ==
  /\ pc = "rc"
  /\ i >= MAX_FINE_ROTATIONS
  /\ ReturnFromSearch(det)
  /\ UNCHANGED <<args, env, iteration, consecutive_misses, ret, cmd, lastEvent,
                 counters, ghosts, outcome>>

\* search_rotate returned None: return False, None
SearchReturnedNone ==
  /\ pc = "search_ret"
  /\ SearchFailed(target_det)
  /\ Return(FALSE, None, "not_found")
  /\ UNCHANGED <<args, env, locals, cmd, lastEvent, counters, ghosts>>

\* search_rotate returned a detection: consecutive_misses = 0, enter the loop
SearchReturnedDet ==
  /\ pc = "search_ret"
  /\ ~SearchFailed(target_det)
  /\ pc' = "loop"
  /\ consecutive_misses' = 0
  /\ iteration' = 0
  /\ UNCHANGED <<args, env, det, target_det, i, sweep, ret, cmd, lastEvent,
                 counters, ghosts, outcome>>

\* one centering iteration starts: query and select the target
LoopQuery ==
  /\ pc = "loop"
  /\ InRange(iteration, max_iterations)
  /\ \E td \in selectable.inline :
       /\ target_det' = td
       /\ missRun' = IF td = None THEN missRun + 1 ELSE 0
       /\ streakWiggles' = IF td = None THEN streakWiggles ELSE 0
       /\ wiggles' = IF td = None THEN wiggles ELSE <<>>
  /\ pc' = "loop_check"
  /\ Query
  /\ nLoopQueries' = nLoopQueries + 1
  /\ UNCHANGED <<args, env, det, i, sweep, iteration, consecutive_misses, ret,
                 sweepHeading, checkpoints, lost, outcome>>

\* the iteration budget is exhausted: return False, None
LoopExhausted ==
  /\ pc = "loop"
  /\ ~InRange(iteration, max_iterations)
  /\ Return(FALSE, None, "max_iterations")
  /\ UNCHANGED <<args, env, locals, cmd, lastEvent, counters, ghosts>>

\* target missing and the miss limit is reached: return False, None
LoopMissLimit ==
  /\ pc = "loop_check"
  /\ target_det = None
  /\ MissLimitReached(consecutive_misses + 1)
  /\ consecutive_misses' = consecutive_misses + 1
  /\ Return(FALSE, None, "miss_limit")
  /\ UNCHANGED <<args, env, det, target_det, i, sweep, iteration, cmd,
                 lastEvent, counters, ghosts>>

\* faulty variant of LoopWiggle: a miss starts a new rotation search
LoopWiggle_research ==
  /\ pc = "loop_check"
  /\ target_det = None
  /\ ~MissLimitReached(consecutive_misses + 1)
  /\ consecutive_misses' = consecutive_misses + 1
  /\ pc' = "search_move"
  /\ sweep' = 1
  /\ UNCHANGED <<args, env, det, target_det, i, iteration, ret, cmd,
                 lastEvent, counters, ghosts, outcome>>

\* target missing: wiggle the base
LoopWiggle ==
  /\ pc = "loop_check"
  /\ target_det = None
  /\ ~MissLimitReached(consecutive_misses + 1)
  /\ consecutive_misses' = consecutive_misses + 1
  /\ Issue(move_delta(wiggle_dx(consecutive_misses + 1),
                      wiggle_dy(consecutive_misses + 1), 0, "wiggle"))
  /\ streakWiggles' = streakWiggles + 1
  /\ wiggles' = Append(wiggles, <<wiggle_dx(consecutive_misses + 1),
                                  wiggle_dy(consecutive_misses + 1)>>)
  /\ pc' = "loop_sleep"
  /\ UNCHANGED <<args, env, det, target_det, i, sweep, iteration, ret,
                 sweepHeading, checkpoints, nLoopQueries, missRun, lost,
                 outcome>>

\* target centred: return True, (u, v)
LoopSuccess ==
  /\ pc = "loop_check"
  /\ target_det # None
  /\ consecutive_misses' = ResetMisses(consecutive_misses)
  /\ Centered(target_det, tolerance)
  /\ Return(TRUE, [u |-> u(target_det), v |-> v(target_det)], "success")
  /\ UNCHANGED <<args, env, det, target_det, i, sweep, iteration, cmd,
                 lastEvent, counters, ghosts>>

\* target off centre: move the base
LoopMove ==
  /\ pc = "loop_check"
  /\ target_det # None
  /\ consecutive_misses' = ResetMisses(consecutive_misses)
  /\ ~Centered(target_det, tolerance)
  /\ Issue(move_delta(move_dx(target_det, gain), move_dy(target_det, gain), 0,
                      "center"))
  /\ pc' = "loop_sleep"
  /\ UNCHANGED <<args, env, det, target_det, i, sweep, iteration, ret, ghosts,
                 outcome>>

\* time.sleep(0.3), then the next iteration
LoopSleep ==
  /\ pc = "loop_sleep"
  /\ Sleep
  /\ iteration' = iteration + 1
  /\ pc' = "loop"
  /\ UNCHANGED <<args, env, det, target_det, i, sweep, consecutive_misses, ret,
                 ghosts, outcome>>

Next ==
  \/ InitialDetect
  \/ InitialNotFound
  \/ InitialFound
  \/ SearchMove
  \/ SearchSleep
  \/ SearchDetect
  \/ SearchFound
  \/ SearchNotFound
  \/ RcCentered
  \/ RcRotate
  \/ RcSleep
  \/ RcDetect
  \/ RcLost
  \/ RcNext
  \/ RcMaxSteps
  \/ SearchReturnedNone
  \/ SearchReturnedDet
  \/ LoopQuery
  \/ LoopExhausted
  \/ LoopMissLimit
  \/ LoopWiggle
  \/ LoopSuccess
  \/ LoopMove
  \/ LoopSleep

Spec == Init /\ [][Next]_vars

\* the run is one sequential thread and every call returns: a step that can
\* be taken is taken
FairSpec == Spec /\ WF_vars(Next)

(* ------------- the selection functions on their own ------------------- *)
SelectTargets == {Banana, banana, apple}

\* any list a query can deliver, any target
SelectInit ==
  /\ pc = "select"
  /\ target \in SelectTargets
  /\ detections \in Results
  /\ selectable = [helper |-> {}, inline |-> {}]
  /\ tolerance = 30
  /\ max_iterations = 0
  /\ gain = 1500
  /\ det = None
  /\ target_det = None
  /\ i = 0
  /\ sweep = 0
  /\ iteration = 0
  /\ consecutive_misses = 0
  /\ ret = NotReturned
  /\ cmd = NoCommand
  /\ lastEvent = "start"
  /\ sweepHeading = 0
  /\ checkpoints = 0
  /\ nLoopQueries = 0
  /\ missRun = 0
  /\ streakWiggles = 0
  /\ wiggles = <<>>
  /\ nQueries = 0
  /\ nCommands = 0
  /\ nRotations = 0
  /\ nFine = 0
  /\ lost = FALSE
  /\ outcome = "running"

\* det = detect_target() applied to the list
SelectByHelper ==
  /\ pc = "select"
  /\ det' = detect_target(detections, target)
  /\ pc' = "select_inline"
  /\ UNCHANGED <<args, env, target_det, i, sweep, iteration,
                 consecutive_misses, ret, cmd, lastEvent, counters, ghosts,
                 outcome>>

\* the selection loop of the centering loop applied to the same list
SelectInline ==
  /\ pc = "select_inline"
  /\ target_det' = inline_select(detections, target)
  /\ pc' = "select_done"
  /\ UNCHANGED <<args, env, det, i, sweep, iteration, consecutive_misses, ret,
                 cmd, lastEvent, counters, ghosts, outcome>>

SelectNext == SelectByHelper \/ SelectInline

SpecSelect == SelectInit /\ [][SelectNext]_vars

TypeOK ==
  /\ pc \in {"initial_detect", "initial_check", "search_move", "search_sleep",
             "search_detect", "search_check", "rc", "rc_sleep", "rc_detect",
             "rc_check", "search_ret", "loop", "loop_check", "loop_sleep",
             "done", "select", "select_inline", "select_done"}
  /\ target_det \in Detections \cup {None}
  /\ det \in Detections \cup {None}
  /\ iteration \in 0 .. max_iterations
  /\ consecutive_misses \in 0 .. MISS_LIMIT

(* ------------------------------ properties ---------------------------- *)
Failed == [success |-> FALSE, position |-> None]

\* the bbox centre of d is within tol pixels of (320, 240) on both axes;
\* x1 + x2 is twice the centre
WithinTolerance(d, tol) ==
  /\ d.bbox[1] + d.bbox[3] - 640 < 2 * tol
  /\ 640 - (d.bbox[1] + d.bbox[3]) < 2 * tol
  /\ d.bbox[2] + d.bbox[4] - 480 < 2 * tol
  /\ 480 - (d.bbox[2] + d.bbox[4]) < 2 * tol

\* C1: a run returns exactly once, either (True, (u, v)) or (False, None);
\* on success (u, v) is the bbox centre of the detection of the last
\* centering-loop query and lies within tolerance of (320, 240) on both axes;
\* a failure carries no position.
C1_Result ==
  /\ (pc = "done") <=> (ret # NotReturned)
  /\ pc = "done" =>
       IF ret.success
         THEN /\ nLoopQueries >= 1
              /\ lastEvent = "query"
              /\ target_det # None
              /\ ret.position = [u |-> target_det.bbox[1] + target_det.bbox[3],
                                 v |-> target_det.bbox[2] + target_det.bbox[4]]
              /\ WithinTolerance(target_det, tolerance)
              /\ outcome = "success"
         ELSE ret = Failed /\ outcome # "success"

\* a run that succeeded on a half-pixel centre (349.5, 240.5)
C1_Witness ==
  /\ pc = "done"
  /\ ret = [success |-> TRUE, position |-> [u |-> 699, v |-> 481]]

\* C2: a centering iteration whose detection is within tolerance on both
\* axes returns success in that iteration, with that detection's centre, and
\* no base.move_delta call is made between the query and the return.
C2_SuccessWithoutMotion ==
  [][ (pc = "loop_check" /\ target_det # None
         /\ WithinTolerance(target_det, tolerance))
      => /\ pc' = "done"
         /\ ret' = [success |-> TRUE,
                    position |-> [u |-> target_det.bbox[1] + target_det.bbox[3],
                                  v |-> target_det.bbox[2] + target_det.bbox[4]]]
         /\ cmd' = NoCommand
         /\ lastEvent' = "query"
         /\ iteration' = iteration ]_vars

\* a run that succeeded in a later iteration, after at least one move
C2_Witness ==
  /\ pc = "done"
  /\ outcome = "success"
  /\ iteration >= 2
  /\ lastEvent = "query"
  /\ cmd = NoCommand

\* C3: the 10th consecutive absent detection of the centering loop ends the
\* run FAILED whatever is left of the iteration budget; no wiggle is issued
\* for the 10th miss, so a miss streak issues at most 9 wiggles.
C3_MissLimitState ==
  /\ missRun <= 10
  /\ streakWiggles <= 9
  /\ cmd.kind = "wiggle" => missRun <= 9 /\ streakWiggles = missRun
  /\ missRun = 10 =>
       /\ pc \in {"loop_check", "done"}
       /\ streakWiggles = 9
       /\ pc = "done" => ret = Failed /\ outcome = "miss_limit"

C3_MissLimitStep ==
  (pc = "loop_check" /\ missRun = 10)
    => /\ pc' = "done"
       /\ ret' = Failed
       /\ outcome' = "miss_limit"
       /\ cmd' = NoCommand
       /\ lastEvent' = "query"

C3_MissLimit == []C3_MissLimitState /\ [][C3_MissLimitStep]_vars

\* the run failed on the miss limit with iterations to spare
C3_Witness ==
  /\ pc = "done"
  /\ outcome = "miss_limit"
  /\ missRun = 10
  /\ streakWiggles = 9
  /\ iteration + 1 < max_iterations

\* C4: a hit in the centering loop resets consecutive_misses to 0, the counter
\* is 0 on entry to the loop whatever missed before, and the run fails on the
\* miss limit only if the 10 most recent centering queries were all absent.
C4_CounterState ==
  /\ (pc = "loop" /\ nLoopQueries = 0) => consecutive_misses = 0
  /\ pc \in {"loop", "loop_sleep"} => consecutive_misses = missRun
  /\ (pc = "loop_check" /\ target_det = None)
       => consecutive_misses = missRun - 1
  /\ outcome = "miss_limit" => missRun >= 10 /\ nLoopQueries >= 10

C4_CounterStep ==
  (pc = "loop_check" /\ target_det # None) => consecutive_misses' = 0

C4_Counter == []C4_CounterState /\ [][C4_CounterStep]_vars

\* the search missed at two checkpoints, the loop then hit once and after
\* that missed 10 times in a row
C4_Witness ==
  /\ pc = "done"
  /\ outcome = "miss_limit"
  /\ checkpoints >= 3
  /\ nLoopQueries = 11
  /\ missRun = 10

\* C5 as stated: for consecutive-miss counts 1, 2, 3, 4 the wiggle's
\* (dx-sign, dy-sign) pairs are (+,+), (-,+), (+,-), (-,-).
C5_AsStated ==
  cmd.kind = "wiggle" =>
    /\ consecutive_misses = 1 => cmd.dx > 0 /\ cmd.dy > 0
    /\ consecutive_misses = 2 => cmd.dx < 0 /\ cmd.dy > 0
    /\ consecutive_misses = 3 => cmd.dx > 0 /\ cmd.dy < 0
    /\ consecutive_misses = 4 => cmd.dx < 0 /\ cmd.dy < 0

\* C5, amended: for consecutive-miss counts 1, 2, 3, 4 the wiggle's
\* (dx-sign, dy-sign) pairs are (-,+), (+,-), (-,-), (+,+): dx is positive
\* exactly for even counts, dy exactly when count // 2 is even.
C5_WiggleSigns ==
  cmd.kind = "wiggle" =>
    /\ consecutive_misses \in 1 .. 9
    /\ consecutive_misses = 1 => cmd.dx < 0 /\ cmd.dy > 0
    /\ consecutive_misses = 2 => cmd.dx > 0 /\ cmd.dy < 0
    /\ consecutive_misses = 3 => cmd.dx < 0 /\ cmd.dy < 0
    /\ consecutive_misses = 4 => cmd.dx > 0 /\ cmd.dy > 0
    /\ cmd.dx > 0 <=> consecutive_misses \in {2, 4, 6, 8}
    /\ cmd.dy > 0 <=> consecutive_misses \in {1, 4, 5, 8, 9}

\* the wiggle of the 4th consecutive miss
C5_Witness ==
  /\ pc = "loop_sleep"
  /\ cmd.kind = "wiggle"
  /\ consecutive_misses = 4
  /\ cmd.dx = 20000
  /\ cmd.dy = 20000

\* the value -gain * err * 0.5 in quarter micrometres, err in half pixels
Raw4(g, err2) == -(g * err2)

\* C6: every linear command has dx and dy within [-0.04 m, +0.04 m]; a
\* centering command's axis equals its unclamped value whenever that value is
\* within the bound, whether or not the other axis saturates; wiggles
\* (0.02 m per axis) respect the bound as well.
C6_LinearBound ==
  /\ cmd.dx >= -40000 /\ cmd.dx <= 40000
  /\ cmd.dy >= -40000 /\ cmd.dy <= 40000
  /\ cmd.kind = "wiggle" =>
       cmd.dx \in {-20000, 20000} /\ cmd.dy \in {-20000, 20000}
  /\ cmd.kind = "center" =>
       LET rx == Raw4(gain, target_det.bbox[2] + target_det.bbox[4] - 480)
           ry == Raw4(gain, target_det.bbox[1] + target_det.bbox[3] - 640)
       IN /\ ~WithinTolerance(target_det, tolerance)
          /\ (rx >= -160000 /\ rx <= 160000) => 4 * cmd.dx = rx
          /\ (ry >= -160000 /\ ry <= 160000) => 4 * cmd.dy = ry

\* a centering command whose dy saturates while dx is left at its own value
C6_Witness ==
  /\ cmd.kind = "center"
  /\ gain = 1500
  /\ cmd.dy = -40000
  /\ cmd.dx = 0

\* clamp in quarter micrometres
Clamp4(r) == IF r > 160000 THEN 160000 ELSE IF r < -160000 THEN -160000 ELSE r

\* C7: the centering command is dx = clamp(-gain * v_err * 0.5),
\* dy = clamp(-gain * u_err * 0.5), dtheta = 0; for gain = 0.0015,
\* u_err = 100, v_err = -50 it is dx = 0.0375, dy = -0.04.
C7_MotionMapping ==
  cmd.kind = "center" =>
    LET ue == target_det.bbox[1] + target_det.bbox[3] - 640
        ve == target_det.bbox[2] + target_det.bbox[4] - 480
    IN /\ 4 * cmd.dx = Clamp4(Raw4(gain, ve))
       /\ 4 * cmd.dy = Clamp4(Raw4(gain, ue))
       /\ cmd.dtheta = 0
       /\ (gain = 1500 /\ ue = 200 /\ ve = -100)
            => cmd.dx = 37500 /\ cmd.dy = -40000

\* the worked example: u_err = 100, v_err = -50 at gain 0.0015
C7_Witness ==
  /\ cmd.kind = "center"
  /\ gain = 1500
  /\ target_det.bbox = <<400, 170, 440, 210>>
  /\ cmd.dx = 37500
  /\ cmd.dy = -40000

SearchPcs == {"search_move", "search_sleep", "search_detect", "search_check"}
FinePcs == {"rc", "rc_sleep", "rc_detect", "rc_check"}

\* C8: the four checkpoints of the sweep are taken at commanded headings
\* +30, -30, +60, -60 in this order, by rotations +30, -60, +30, +60, -120;
\* a detection at a checkpoint hands off to rotational_center at once, the
\* search returns its result, and no later sweep rotation or checkpoint query
\* is made.
C8_SweepState ==
  /\ checkpoints \in 0 .. 4
  /\ pc = "search_check" =>
       sweepHeading = <<30, -30, 60, -60>>[checkpoints]
  /\ cmd.kind = "search" =>
       /\ sweep \in 1 .. 6
       /\ cmd.dtheta = <<30, -60, 30, 60, -120, 60>>[sweep]
       /\ checkpoints = <<0, 1, 2, 2, 3, 4>>[sweep]
  /\ pc \in FinePcs =>
       /\ checkpoints \in 1 .. 4
       /\ sweepHeading = <<30, -30, 60, -60>>[checkpoints]

C8_SweepStep ==
  /\ (pc = "search_check" /\ det # None) => (pc' = "rc" /\ det' = det)
  /\ pc \in FinePcs =>
       /\ pc' \in FinePcs \cup {"search_ret"}
       /\ checkpoints' = checkpoints
       /\ sweepHeading' = sweepHeading
       /\ cmd'.kind # "search"
       /\ pc' = "search_ret" => target_det' \in {det, None}
  /\ pc \notin SearchPcs \cup {"initial_check"} => pc' \notin SearchPcs

C9_LostState ==
  lost =>
    /\ checkpoints >= 1
    /\ pc \in {"search_ret", "done"}
    /\ target_det = None
    /\ nLoopQueries = 0
    /\ pc = "done" => ret = Failed /\ outcome = "not_found"

C9_LostStep ==
  /\ (pc = "rc_check" /\ det = None) => (lost' /\ pc' = "search_ret")
  /\ lost => (pc' = "done" /\ lost')

C9_LostInFineCentering == []C9_LostState /\ [][C9_LostStep]_vars

\* the object was found at a checkpoint, lost after a fine rotation, and the
\* run has failed
C9_Witness ==
  /\ lost
  /\ pc = "done"
  /\ ret = Failed
  /\ lastEvent = "query"

\* C10: the centering loop makes at most max_iterations queries, misses
\* and hits alike; an exhausted budget ends the run FAILED; if every
\* centering query misses, the run fails after exactly min(N, 10) misses.
C10_Budget ==
  /\ nLoopQueries <= max_iterations
  /\ pc = "loop" => nLoopQueries = iteration
  /\ pc \in {"loop_check", "loop_sleep"} => nLoopQueries = iteration + 1
  /\ outcome = "max_iterations" =>
       /\ ret = Failed
       /\ nLoopQueries = max_iterations
  /\ (outcome \in {"max_iterations", "miss_limit", "success"}
        /\ missRun = nLoopQueries)
       => /\ ret = Failed
          /\ nLoopQueries = IF max_iterations < 10 THEN max_iterations ELSE 10

\* a budget of 7 used up by 7 misses
C10_Witness ==
  /\ pc = "done"
  /\ outcome = "max_iterations"
  /\ max_iterations = 7
  /\ missRun = 7

\* C11: every run terminates with a result, after at most
\* 1 + 4 + 6 + max_iterations detection queries and at most
\* 5 + 6 + max_iterations actuator commands; the sweep, the fine-centering
\* loop and a miss streak are each bounded.
C11_Bounds ==
  /\ nQueries <= 1 + 4 + 6 + max_iterations
  /\ nCommands <= 5 + 6 + max_iterations
  /\ checkpoints <= 4
  /\ nFine <= 6
  /\ nRotations <= 6 + 5
  /\ nLoopQueries <= max_iterations
  /\ Len(wiggles) <= 9

C11_Terminates ==
  /\ <>(pc = "done" /\ ret # NotReturned)
  /\ []C11_Bounds

\* the longest run: found at the 4th checkpoint, 6 fine rotations, and the
\* whole iteration budget used up, each iteration issuing a command
C11_Witness ==
  /\ pc = "done"
  /\ max_iterations >= 2
  /\ nQueries = 11 + max_iterations
  /\ nCommands = 11 + max_iterations

\* C12: detect, act, settle: the step after every base.move_delta call is a
\* settling pause, so a detection query never directly follows a command.
C12_SettleStep ==
  /\ lastEvent = "move" => lastEvent' = "sleep"
  /\ lastEvent' = "query" => lastEvent \in {"start", "query", "sleep"}
  /\ nCommands' # nCommands => (lastEvent' = "move" /\ cmd' # NoCommand)
  /\ nQueries' # nQueries => lastEvent' = "query"

C12_SettleBeforeQuery ==
  /\ [](lastEvent = "move" <=> cmd # NoCommand)
  /\ [][C12_SettleStep]_vars

\* a detection query made after a fine rotation and its pause
C12_Witness ==
  /\ pc = "rc_check"
  /\ lastEvent = "query"
  /\ nFine = 2
  /\ nCommands >= 3

\* two labels are equal ignoring the case of their letters
SameLabel(a, b) ==
  /\ Len(a) = Len(b)
  /\ \A k \in 1 .. Len(a) :
       \/ a[k] = b[k]
       \/ a[k] \in 65 .. 90 /\ b[k] = a[k] + 32
       \/ b[k] \in 65 .. 90 /\ a[k] = b[k] + 32

\* C13: a query selects the first detection of the list whose label equals
\* the target ignoring case, and counts as absent if there is none, whatever
\* other labels are present; detect_target and the selection of the
\* centering loop select the same.
C13_FirstMatch ==
  LET idx == { k \in 1 .. Len(detections) :
                 SameLabel(detections[k].class_name, target) }
      expected == IF idx = {} THEN None
                  ELSE detections[CHOOSE k \in idx : \A j \in idx : k <= j]
  IN /\ pc \in {"select_inline", "select_done"} => det = expected
     /\ pc = "select_done" => target_det = expected /\ target_det = det

\* a list whose first entry has another label and whose second entry matches
\* the target in another case
C13_Witness ==
  /\ pc = "select_done"
  /\ target = Banana
  /\ Len(detections) = 2
  /\ detections[1].class_name = apple
  /\ detections[2].class_name = BANANA
  /\ det = detections[2]
  /\ target_det = detections[2]

\* the sweep ran through all four checkpoints and returned not-found
Exhausted ==
  /\ ~lost
  /\ \/ pc = "search_ret" /\ target_det = None
     \/ outcome = "not_found"

C15_MaxStepsState ==
  /\ nFine <= 6
  /\ pc = "rc" => nFine = i /\ det # None
  /\ pc \in {"rc_sleep", "rc_detect", "rc_check"} => nFine = i + 1

C15_MaxStepsStep ==
  /\ (pc = "rc" /\ nFine = 6) =>
       /\ pc' = "search_ret"
       /\ target_det' = det
       /\ nCommands' = nCommands
       /\ nQueries' = nQueries
  /\ (pc = "search_ret" /\ nFine = 6 /\ ~lost) =>
       /\ pc' = "loop"
       /\ target_det' = target_det
       /\ target_det # None

C15_MaxSteps == []C15_MaxStepsState /\ [][C15_MaxStepsStep]_vars

\* all 6 fine rotations were used, the detection returned is still 100 px
\* off centre, and the run is in the centering loop
C15_Witness ==
  /\ pc = "loop"
  /\ nLoopQueries = 0
  /\ nFine = 6
  /\ target_det.bbox = <<400, 170, 440, 210>>

\* C16: a fine-centering step returns the current detection without a
\* rotation if |u_err| < 80 px; otherwise it issues exactly one rotation of
\* 10 degrees, -10 for u_err > 0 and +10 for u_err < 0, with dx = dy = 0.
C16_FineStep ==
  [][ (pc = "rc" /\ i < 6) =>
        LET ue == det.bbox[1] + det.bbox[3] - 640
        IN IF ue < 160 /\ ue > -160
             THEN /\ pc' = "search_ret"
                  /\ target_det' = det
                  /\ cmd' = NoCommand
                  /\ nCommands' = nCommands
             ELSE /\ pc' = "rc_sleep"
                  /\ cmd' = [dx |-> 0, dy |-> 0, kind |-> "fine",
                             dtheta |-> IF ue > 0 THEN -10 ELSE 10]
                  /\ nCommands' = nCommands + 1
                  /\ det' = det ]_vars

\* a fine rotation of +10 degrees for an object left of centre
C16_Witness ==
  /\ pc = "rc_sleep"
  /\ cmd.kind = "fine"
  /\ cmd.dtheta = 10
  /\ det.bbox = <<200, 320, 240, 360>>

\* C17: success is decided only on a detection queried inside the centering
\* loop; the detection of the initial query or of the search is used neither
\* for the centred test nor for a motion command, so a run needs a centering
\* query to succeed and max_iterations = 0 gives FAILED.
C17_FreshState ==
  /\ (pc = "done" /\ ret.success) => nLoopQueries >= 1
  /\ pc = "loop_check" => lastEvent = "query" /\ nLoopQueries = iteration + 1
  /\ cmd.kind \in {"center", "wiggle"} => nLoopQueries >= 1
  /\ max_iterations = 0 =>
       /\ nLoopQueries = 0
       /\ pc = "done" => ret = Failed

C17_FreshStep ==
  pc \in {"initial_check", "search_ret"} =>
    /\ cmd' = NoCommand
    /\ pc' = "done" => ret' = Failed
    /\ pc' \in {"search_move", "loop", "done"}

C17_FreshDetection == []C17_FreshState /\ [][C17_FreshStep]_vars

\* the initial query found the object centred, and the run failed for want
\* of an iteration
C17_Witness ==
  /\ pc = "done"
  /\ max_iterations = 0
  /\ checkpoints = 0
  /\ target_det.bbox = <<300, 220, 340, 260>>
  /\ ret = Failed

Phase(p) ==
  IF p \in {"initial_detect", "initial_check"} THEN 0
  ELSE IF p \in SearchPcs THEN 1
  ELSE IF p \in FinePcs THEN 2
  ELSE IF p = "search_ret" THEN 3
  ELSE IF p \in {"loop", "loop_check", "loop_sleep"} THEN 4
  ELSE 5

\* C18: phases never go backwards; commands of the sweep and of
\* fine-centering are pure rotations, commands of the centering loop are
\* pure translations; no rotation follows the first centering query; a run
\* whose initial query finds the object never rotates.
C18_PhaseState ==
  /\ cmd.kind \in {"search", "fine"} =>
       /\ cmd.dx = 0 /\ cmd.dy = 0 /\ cmd.dtheta # 0
       /\ Phase(pc) \in {1, 2}
       /\ nLoopQueries = 0
  /\ cmd.kind \in {"wiggle", "center"} =>
       /\ cmd.dtheta = 0
       /\ Phase(pc) = 4
       /\ nLoopQueries >= 1
  /\ nLoopQueries >= 1 => cmd.dtheta = 0 /\ Phase(pc) >= 4
  /\ (checkpoints = 0 /\ Phase(pc) >= 4) => nRotations = 0

C18_PhaseStep ==
  /\ Phase(pc') >= Phase(pc)
  /\ Phase(pc) >= 4 => nRotations' = nRotations
  /\ Phase(pc) <= 3 => nCommands' - nCommands = nRotations' - nRotations

C18_Phases == []C18_PhaseState /\ [][C18_PhaseStep]_vars

\* a run whose initial query found the object, that moved and wiggled, and
\* never rotated
C18_Witness ==
  /\ pc = "done"
  /\ checkpoints = 0
  /\ nRotations = 0
  /\ nCommands >= 3
  /\ Len(wiggles) >= 1

\* C19: within a miss streak the wiggle's dx sign flips on every miss and
\* its dy sign every 2 misses; any 4 consecutive wiggles use the four sign
\* combinations once each and sum to (0, 0), so the net wiggle displacement
\* after 4 or 8 misses is zero; every wiggle is 0.02 m on both axes.
C19_WiggleCycle ==
  LET n == Len(wiggles)
      SumX(k) == wiggles[k][1] + wiggles[k + 1][1] + wiggles[k + 2][1]
                   + wiggles[k + 3][1]
      SumY(k) == wiggles[k][2] + wiggles[k + 1][2] + wiggles[k + 2][2]
                   + wiggles[k + 3][2]
  IN /\ n = streakWiggles
     /\ \A k \in 1 .. n :
          /\ wiggles[k][1] \in {-20000, 20000}
          /\ wiggles[k][2] \in {-20000, 20000}
     /\ \A k \in 1 .. n - 1 : wiggles[k + 1][1] = -wiggles[k][1]
     /\ \A k \in 1 .. n - 2 : wiggles[k + 2][2] = -wiggles[k][2]
     /\ \A k \in 1 .. n - 3 :
          /\ SumX(k) = 0
          /\ SumY(k) = 0
          /\ Cardinality({ wiggles[j] : j \in k .. k + 3 }) = 4
     /\ n = 4 => SumX(1) = 0 /\ SumY(1) = 0
     /\ n = 8 => SumX(1) + SumX(5) = 0 /\ SumY(1) + SumY(5) = 0
     /\ cmd.kind = "wiggle" => wiggles[n] = <<cmd.dx, cmd.dy>>

\* the 8th wiggle of a streak
C19_Witness ==
  /\ pc = "loop_sleep"
  /\ cmd.kind = "wiggle"
  /\ Len(wiggles) = 8
=============================================================================
